---- MODULE Spec2Model ----
(***************************************************************************)
(* The A2A food-info route of src/mastra/routes/agentRoutes.ts: one POST   *)
(* handler that validates a JSON-RPC envelope, resolves an agent, flattens *)
(* the inbound messages, invokes the agent with a nutrition-fetch          *)
(* capability, and wraps the outcome in a task envelope or an error        *)
(* envelope.  One behaviour of the model is one request.                   *)
(*                                                                         *)
(* JavaScript values: a string-typed field that is undefined or null is    *)
(* the sentinel Undefined or Null; an object-typed field that is undefined *)
(* is a field missing from the record's DOMAIN.                            *)
(***************************************************************************)
EXTENDS Integers, Sequences, FiniteSets, TLC

VARIABLES body, stages, calls, agent, messagesList, mastraMessages,
          query, searchData, toolResult, thrown, responses

vars == <<body, stages, calls, agent, messagesList, mastraMessages,
          query, searchData, toolResult, thrown, responses>>

\* Longest params.messages array a request carries.
MaxMessages == 2
\* Longest foodNutrients list the upstream search returns.
MaxNutrients == 2

Undefined == "<undefined>"
Null == "<null>"
EmptyObject == [f \in {} |-> 0]

\* JavaScript truthiness of a string-typed value.
Truthy(v) == v \notin {Undefined, Null, ""}

\* Property read o.f, undefined when the property is missing.
Get(o, f) == IF f \in DOMAIN o THEN o[f] ELSE Undefined

Has(o, f) == f \in DOMAIN o

Last(s) == s[Len(s)]

------------------------------------------------------------------------------
\* String primitives of the JavaScript runtime used by the handler.

Includes(s, sub) ==
    \E i \in 1..(Len(s) - Len(sub) + 1) : SubSeq(s, i, i + Len(sub) - 1) = sub

StartsWith(s, p) == Len(s) >= Len(p) /\ SubSeq(s, 1, Len(p)) = p

UpperLetters == "ABCDEFGHIJKLMNOPQRSTUVWXYZ"
LowerLetters == "abcdefghijklmnopqrstuvwxyz"

LowerChar(c) ==
    IF \E i \in 1..Len(UpperLetters) : SubSeq(UpperLetters, i, i) = c
    THEN LET i == CHOOSE j \in 1..Len(UpperLetters) : SubSeq(UpperLetters, j, j) = c
         IN SubSeq(LowerLetters, i, i)
    ELSE c

RECURSIVE ToLowerCase(_)
ToLowerCase(s) ==
    IF s = "" THEN ""
    ELSE LowerChar(SubSeq(s, 1, 1)) \o ToLowerCase(SubSeq(s, 2, Len(s)))

\* Array.prototype.join over strings, undefined elements rendered empty.
RECURSIVE Join(_, _)
Join(strs, sep) ==
    IF Len(strs) = 0 THEN ""
    ELSE IF Len(strs) = 1 THEN (IF strs[1] = Undefined THEN "" ELSE strs[1])
    ELSE (IF strs[1] = Undefined THEN "" ELSE strs[1]) \o sep \o Join(Tail(strs), sep)

\* JSON.stringify of the data payloads the requests carry: {"q": <string>}.
JSONStringify(d) == "{\"q\":\"" \o d.q \o "\"}"

\* randomUUID(): the n-th identifier drawn while building one response.
randomUUID(n) == "uuid-" \o ToString(n)

SeqsUpTo(S, n) == UNION {[1..k -> S] : k \in 0..n}

------------------------------------------------------------------------------
\* Request inputs.

TextPart(t) == [kind |-> "text", text |-> t]
DataPart == [kind |-> "data", data |-> [q |-> "kiwi"]]
ImagePart == [kind |-> "image"]

SampleMessages ==
    { [role |-> "user", parts |-> <<TextPart("banana")>>,
       messageId |-> Undefined, taskId |-> Undefined],
      [role |-> "user", parts |-> <<DataPart, TextPart("mango")>>,
       messageId |-> "m-1", taskId |-> Undefined],
      [role |-> "agent", parts |-> <<ImagePart, TextPart("")>>,
       messageId |-> "m-2", taskId |-> "mt-1"] }

\* A params.message: one that carries no parts at all.
SingleMessages ==
    { [role |-> "user", messageId |-> "m-3", taskId |-> Undefined] }

MessageChoices == {EmptyObject} \cup {[message |-> m] : m \in SingleMessages}

MessagesChoices ==
    {EmptyObject, [messages |-> [isArray |-> FALSE, items |-> <<>>]]} \cup
    {[messages |-> [isArray |-> TRUE, items |-> ms]] :
        ms \in SeqsUpTo(SampleMessages, MaxMessages)}

ParamsSet ==
    { m @@ ms @@ [contextId |-> c, taskId |-> t] :
        m \in MessageChoices, ms \in MessagesChoices,
        c \in {Undefined, "ctx-1"}, t \in {Undefined, "task-1"} }

ObjectBodies ==
    { [kind |-> "object", jsonrpc |-> j, id |-> i] @@ p :
        j \in {"2.0", "1.0", Undefined},
        i \in {"req-1", "", Null, Undefined},
        p \in {EmptyObject} \cup {[params |-> q] : q \in ParamsSet} }

\* What c.req.json() can yield: an object, the JSON value null, a JSON
\* primitive such as 42, or a rejection because the text is not JSON.
Bodies ==
    ObjectBodies \cup {[kind |-> "null"], [kind |-> "primitive"], [kind |-> "malformed"]}

------------------------------------------------------------------------------
\* The upstream nutrition dataset.

Nutrient(n, v, u) == [nutrientName |-> n, value |-> v, unitName |-> u]

SampleNutrients ==
    { Nutrient("Energy", 52, "KCAL"),
      Nutrient("Energy (Atwater General Factors)", 40, "KCAL"),
      Nutrient("Vitamin C, total ascorbic acid", 5, "MG"),
      Nutrient("Potassium, K", 107, "MG"),
      Nutrient("Calcium, Ca", 6, "MG") }

SampleFoods ==
    {[description |-> "Apples, raw", fdcId |-> 171688]} \cup
    {[description |-> "Apples, raw", fdcId |-> 171688, foodNutrients |-> ns] :
        ns \in SeqsUpTo(SampleNutrients, MaxNutrients)}

\* searchRes.json(): an object whose foods list is missing, empty, or holds
\* the single candidate that pageSize=1 allows.
SearchResponses ==
    {EmptyObject, [foods |-> <<>>]} \cup {[foods |-> <<f>>] : f \in SampleFoods}

\* n.nutrientName.toLowerCase(), tabulated once for the dataset's names.
LowerName ==
    [n \in {r.nutrientName : r \in SampleNutrients} |-> ToLowerCase(n)]

\* nutrients.find(n => n.nutrientName.toLowerCase().includes(key))?.value || 0
FindValue(nutrients, key) ==
    LET hits == {i \in 1..Len(nutrients) :
                    Includes(LowerName[nutrients[i].nutrientName], key)}
    IN IF hits = {} THEN 0
       ELSE nutrients[CHOOSE i \in hits : \A j \in hits : i <= j].value

FormatNutrient(n) == n.nutrientName \o ": " \o ToString(n.value) \o n.unitName

MineralNames == {"Iron", "Calcium", "Potassium", "Magnesium", "Zinc", "Phosphorus"}

IsVitamin(n) == StartsWith(n.nutrientName, "Vitamin")
IsMineral(n) == \E m \in MineralNames : Includes(n.nutrientName, m)

Vitamins(nutrients) ==
    LET kept == SelectSeq(nutrients, IsVitamin)
    IN [i \in 1..Len(kept) |-> FormatNutrient(kept[i])]

Minerals(nutrients) ==
    LET kept == SelectSeq(nutrients, IsMineral)
    IN [i \in 1..Len(kept) |-> FormatNutrient(kept[i])]

AnyIncludes(strs, sub) == \E i \in 1..Len(strs) : Includes(strs[i], sub)

HealthBenefits(calories, vitamins, minerals) ==
    LET fired ==
          (IF calories < 50
             THEN <<"Low in calories, good for weight management">> ELSE <<>>)
          \o (IF AnyIncludes(vitamins, "Vitamin C")
             THEN <<"Rich in Vitamin C, supports immune system">> ELSE <<>>)
          \o (IF AnyIncludes(minerals, "Potassium")
             THEN <<"High in Potassium, supports heart health">> ELSE <<>>)
          \o (IF AnyIncludes(minerals, "Calcium")
             THEN <<"Contains Calcium, supports bone health">> ELSE <<>>)
    IN IF Len(fired) = 0
       THEN <<"General source of nutrients and minerals">>
       ELSE fired

\* Variant: the list is kept even when it is empty.
OptionalListKeptEmpty(name, list) == [n \in {name} |-> list]

\* vitamins: vitamins.length ? vitamins : undefined (likewise minerals).
OptionalList(name, list) ==
    IF Len(list) > 0 THEN [n \in {name} |-> list] ELSE EmptyObject

\* The FoodInfoResponse the fetch capability returns for one food.
FoodInfo(food) ==
    LET nutrients == IF Has(food, "foodNutrients") THEN food.foodNutrients ELSE <<>>
        calories  == FindValue(nutrients, "energy")
        vitamins  == Vitamins(nutrients)
        minerals  == Minerals(nutrients)
    IN [foodName |-> food.description,
        calories |-> calories,
        protein  |-> ToString(FindValue(nutrients, "protein")) \o " g",
        fat      |-> ToString(FindValue(nutrients, "total lipid")) \o " g",
        carbs    |-> ToString(FindValue(nutrients, "carbohydrate")) \o " g",
        healthBenefits |-> HealthBenefits(calories, vitamins, minerals)]
       @@ OptionalList("vitamins", vitamins)
       @@ OptionalList("minerals", minerals)

\* messagesList[0]?.parts?.[0]?.text || "apple"
Query(msgs) ==
    LET first == IF Len(msgs) > 0 THEN msgs[1] ELSE EmptyObject
        parts == IF Has(first, "parts") THEN first.parts ELSE <<>>
        part  == IF Len(parts) > 0 THEN parts[1] ELSE EmptyObject
        text  == Get(part, "text")
    IN IF Truthy(text) THEN text ELSE "apple"

\* Variant: the message does not name the query.
NoResultsMessageWithoutQuery(q) == "No results found"

NoResultsMessage(q) == "No results found for \"" \o q \o "\""

\* !searchData.foods?.[0]
NoFoods(data) == ~Has(data, "foods") \/ Len(data.foods) = 0

------------------------------------------------------------------------------
\* Message normalisation.

PartContent(part) ==
    IF part.kind = "text" THEN Get(part, "text")
    ELSE IF part.kind = "data" THEN JSONStringify(part.data)
    ELSE ""

\* msg.parts?.map(...).join("\n") || ""
MastraMessage(msg) ==
    [role |-> msg.role,
     content |-> IF Has(msg, "parts")
                 THEN Join([i \in 1..Len(msg.parts) |-> PartContent(msg.parts[i])], "\n")
                 ELSE ""]

\* params.message wins over params.messages; neither gives the empty list.
MessagesList(params) ==
    IF Has(params, "message") THEN <<params.message>>
    ELSE IF Has(params, "messages") /\ params.messages.isArray
         THEN params.messages.items
    ELSE <<>>

------------------------------------------------------------------------------
\* Envelopes.

InvalidRequestEnvelope(requestId) ==
    [status |-> 400,
     body |-> [jsonrpc |-> "2.0",
               id |-> IF Truthy(requestId) THEN requestId ELSE Null,
               error |-> [code |-> -32600,
                          message |-> "Invalid Request: jsonrpc must be \"2.0\" and id is required"]]]

\* Variant: the not-found branch reuses the invalid-request status and code.
AgentNotFoundAsInvalidRequest(requestId, agentId) ==
    [status |-> 400,
     body |-> [jsonrpc |-> "2.0",
               id |-> requestId,
               error |-> [code |-> -32600,
                          message |-> "Agent '" \o agentId \o "' not found"]]]

AgentNotFoundEnvelope(requestId, agentId) ==
    [status |-> 404,
     body |-> [jsonrpc |-> "2.0",
               id |-> requestId,
               error |-> [code |-> -32602,
                          message |-> "Agent '" \o agentId \o "' not found"]]]

\* Variant: the catch block reports String(error) instead of error.message.
InternalErrorWithErrorString(errorMessage) ==
    [status |-> 500,
     body |-> [jsonrpc |-> "2.0",
               id |-> Null,
               error |-> [code |-> -32603,
                          message |-> "Internal error",
                          data |-> [details |-> "Error: " \o errorMessage]]]]

\* The catch block: the request id is not in scope there, the id is null.
InternalErrorEnvelope(errorMessage) ==
    [status |-> 500,
     body |-> [jsonrpc |-> "2.0",
               id |-> Null,
               error |-> [code |-> -32603,
                          message |-> "Internal error",
                          data |-> [details |-> errorMessage]]]]

TemplateString(v) == IF v = Undefined THEN "undefined" ELSE v

JoinOrNA(t, f) ==
    LET joined == IF Has(t, f) THEN Join(t[f], ", ") ELSE ""
    IN IF joined = "" THEN "N/A" ELSE joined

\* The template literal over response.text; healthBenefits must be there.
FullNutritionText(t) ==
    "\n" \o TemplateString(Get(t, "foodName")) \o ":"
    \o "\nCalories: " \o (IF Has(t, "calories") THEN ToString(t.calories) ELSE "undefined")
    \o "\nProtein: " \o TemplateString(Get(t, "protein"))
    \o "\nFat: " \o TemplateString(Get(t, "fat"))
    \o "\nCarbs: " \o TemplateString(Get(t, "carbs"))
    \o "\nVitamins: " \o JoinOrNA(t, "vitamins")
    \o "\nMinerals: " \o JoinOrNA(t, "minerals")
    \o "\nHealth Benefits: " \o Join(t.healthBenefits, ", ")
    \o "\n"

\* The TypeError the template literal raises on an unusable agent result,
\* Undefined when it raises none.
TemplateFailure(response) ==
    IF ~Has(response, "text")
    THEN "Cannot read properties of undefined (reading 'foodName')"
    ELSE IF ~Has(response.text, "healthBenefits")
    THEN "Cannot read properties of undefined (reading 'join')"
    ELSE Undefined

\* Variant: one identifier is drawn and shared by both artifacts.
ArtifactsSharedId(text, data, n) ==
    << [artifactId |-> randomUUID(n),
        name |-> "NutritionInfoText",
        parts |-> <<TextPart(text)>>],
       [artifactId |-> randomUUID(n),
        name |-> "ToolResults",
        parts |-> <<[kind |-> "data", data |-> data]>>] >>

\* The two artifacts; n identifiers were drawn before them.
Artifacts(text, data, n) ==
    << [artifactId |-> randomUUID(n),
        name |-> "NutritionInfoText",
        parts |-> <<TextPart(text)>>],
       [artifactId |-> randomUUID(n + 1),
        name |-> "ToolResults",
        parts |-> <<[kind |-> "data", data |-> data]>>] >>

\* One replayed message: messageId || randomUUID(), then
\* msg.taskId || taskId || randomUUID(); next counts the identifiers drawn.
HistoryEntry(msg, taskId, n) ==
    LET drawMid == ~Truthy(Get(msg, "messageId"))
        n1      == IF drawMid THEN n + 1 ELSE n
        drawTid == ~Truthy(Get(msg, "taskId")) /\ ~Truthy(taskId)
    IN [entry |->
          [kind |-> "message",
           role |-> msg.role,
           messageId |-> IF drawMid THEN randomUUID(n) ELSE msg.messageId,
           taskId |-> IF Truthy(Get(msg, "taskId")) THEN msg.taskId
                      ELSE IF Truthy(taskId) THEN taskId
                      ELSE randomUUID(n1)]
          @@ (IF Has(msg, "parts") THEN [parts |-> msg.parts] ELSE EmptyObject),
        next |-> IF drawTid THEN n1 + 1 ELSE n1]

RECURSIVE HistoryReplay(_, _, _)
HistoryReplay(msgs, taskId, n) ==
    IF Len(msgs) = 0 THEN [items |-> <<>>, next |-> n]
    ELSE LET head == HistoryEntry(msgs[1], taskId, n)
             rest == HistoryReplay(Tail(msgs), taskId, head.next)
         IN [items |-> <<head.entry>> \o rest.items, next |-> rest.next]

\* Variant: the synthesized agent message is put before the replayed ones.
HistoryAgentFirst(msgs, taskId, text, n) ==
    LET replay == HistoryReplay(msgs, taskId, n)
        m      == replay.next
    IN [items |-> << [kind |-> "message",
                      role |-> "agent",
                      parts |-> <<TextPart(text)>>,
                      messageId |-> randomUUID(m),
                      taskId |-> IF Truthy(taskId) THEN taskId ELSE randomUUID(m + 1)] >>
                  \o replay.items,
        next |-> IF Truthy(taskId) THEN m + 1 ELSE m + 2]

\* The replayed messages followed by the synthesized agent message.
History(msgs, taskId, text, n) ==
    LET replay == HistoryReplay(msgs, taskId, n)
        m      == replay.next
    IN [items |-> replay.items \o
                  << [kind |-> "message",
                      role |-> "agent",
                      parts |-> <<TextPart(text)>>,
                      messageId |-> randomUUID(m),
                      taskId |-> IF Truthy(taskId) THEN taskId ELSE randomUUID(m + 1)] >>,
        next |-> IF Truthy(taskId) THEN m + 1 ELSE m + 2]

\* The success envelope; status.timestamp (the wall clock) is left out.
SuccessEnvelope(requestId, contextId, taskId, msgs, response) ==
    LET text      == FullNutritionText(response.text)
        artifacts == Artifacts(text, response.text, 0)
        history   == History(msgs, taskId, text, 2)
        n         == history.next
        n1        == IF Truthy(taskId) THEN n ELSE n + 1
        n2        == IF Truthy(contextId) THEN n1 ELSE n1 + 1
    IN [status |-> 200,
        body |-> [jsonrpc |-> "2.0",
                  id |-> requestId,
                  result |->
                    [id |-> IF Truthy(taskId) THEN taskId ELSE randomUUID(n),
                     contextId |-> IF Truthy(contextId) THEN contextId ELSE randomUUID(n1),
                     status |-> [state |-> "completed",
                                 message |-> [messageId |-> randomUUID(n2),
                                              role |-> "agent",
                                              parts |-> <<TextPart(text)>>,
                                              kind |-> "message"]],
                     artifacts |-> artifacts,
                     history |-> history.items,
                     kind |-> "task"]]]

------------------------------------------------------------------------------
\* The handler.  Each action is one synchronous run of the handler between
\* two suspension points: the await of c.req.json(), the await of
\* agent.generate, and inside the capability the await of fetch.

\* Route parameters and the agents mastra knows.
AgentIds == {"foodInfoAgent", "ghostAgent"}
RegisteredAgents == {"foodInfoAgent"}

\* Failures the collaborators raise.
MalformedJson == "Unexpected end of JSON input"
DestructureNull == "Cannot destructure property 'jsonrpc' of 'body' as it is null."
LookupFailure == "Agent with name ghostAgent not found"
AgentFailures == {"model backend unavailable"}
FetchFailure == "fetch failed"

\* What agent.generate may resolve to: the capability's result passed
\* through as .text, a plain string as .text, an object that is no summary,
\* or a value with no .text at all.
AgentResponses(result, fetched) ==
    (IF fetched THEN {[text |-> result]} ELSE {})
    \cup {[text |-> [string |-> "An apple a day"]],
          [text |-> [foodName |-> "Apples, raw"]],
          EmptyObject}

Stage == Last(stages)
Called(c) == \E i \in 1..Len(calls) : calls[i] = c
Count(c) == Cardinality({i \in 1..Len(calls) : calls[i] = c})

RequestId == Get(body, "id")
Params == IF Has(body, "params") THEN body.params ELSE EmptyObject

\* jsonrpc !== "2.0" || !requestId
Invalid(b) == Get(b, "jsonrpc") /= "2.0" \/ ~Truthy(Get(b, "id"))

\* c.json(...) in a return statement: the response is sent and the request ends.
Respond(envelope, finalStage) ==
    /\ responses' = Append(responses, envelope)
    /\ stages' = Append(stages, finalStage)

\* A throw inside the try block: control passes to the catch block, which
\* returns the internal-error envelope.  thrown keeps the error's message.
Fail(errorMessage) ==
    /\ thrown' = errorMessage
    /\ Respond(InternalErrorEnvelope(errorMessage), "error_responded")

Init ==
    /\ body \in Bodies
    /\ stages = <<"received">>
    /\ calls = <<>>
    /\ agent = Undefined
    /\ messagesList = <<>>
    /\ mastraMessages = <<>>
    /\ query = Undefined
    /\ searchData = EmptyObject
    /\ toolResult = EmptyObject
    /\ thrown = Undefined
    /\ responses = <<>>

\* await c.req.json() rejects: the body is not JSON.
ReadBodyRejects ==
    /\ Stage = "received"
    /\ body.kind = "malformed"
    /\ calls' = Append(calls, "req.json")
    /\ Fail(MalformedJson)
    /\ UNCHANGED <<body, agent, messagesList, mastraMessages, query, searchData, toolResult>>

\* const { jsonrpc, id, params } = body, with body the JSON value null.
DestructureThrows ==
    /\ Stage = "received"
    /\ body.kind = "null"
    /\ calls' = Append(calls, "req.json")
    /\ Fail(DestructureNull)
    /\ UNCHANGED <<body, agent, messagesList, mastraMessages, query, searchData, toolResult>>

\* Variant: the agent is looked up before the envelope is validated.
ValidateRejectsAfterLookup ==
    /\ Stage = "received"
    /\ body.kind \in {"object", "primitive"}
    /\ Invalid(body)
    /\ calls' = calls \o <<"req.json", "getAgent">>
    /\ Respond(InvalidRequestEnvelope(RequestId), "error_responded")
    /\ UNCHANGED <<body, agent, messagesList, mastraMessages, query, searchData, toolResult,
                   thrown>>

ValidateRejects ==
    /\ Stage = "received"
    /\ body.kind \in {"object", "primitive"}
    /\ Invalid(body)
    /\ calls' = Append(calls, "req.json")
    /\ Respond(InvalidRequestEnvelope(RequestId), "error_responded")
    /\ UNCHANGED <<body, agent, messagesList, mastraMessages, query, searchData, toolResult,
                   thrown>>

\* mastra.getAgent(agentId) itself throws.
AgentLookupThrows ==
    /\ Stage = "received"
    /\ body.kind \in {"object", "primitive"}
    /\ ~Invalid(body)
    /\ \E agentId \in AgentIds \ RegisteredAgents :
         /\ calls' = calls \o <<"req.json", "getAgent">>
         /\ thrown' = LookupFailure
         /\ responses' = Append(responses, InternalErrorEnvelope(LookupFailure))
         /\ stages' = stages \o <<"validated", "error_responded">>
    /\ UNCHANGED <<body, agent, messagesList, mastraMessages, query, searchData, toolResult>>

\* mastra.getAgent(agentId) returns nothing.
AgentNotFound ==
    /\ Stage = "received"
    /\ body.kind \in {"object", "primitive"}
    /\ ~Invalid(body)
    /\ \E agentId \in AgentIds \ RegisteredAgents :
         /\ calls' = calls \o <<"req.json", "getAgent">>
         /\ agent' = Null
         /\ responses' = Append(responses, AgentNotFoundEnvelope(RequestId, agentId))
         /\ stages' = stages \o <<"validated", "error_responded">>
    /\ UNCHANGED <<body, messagesList, mastraMessages, query, searchData, toolResult,
                   thrown>>

\* Validation passes, the agent resolves, the messages are flattened and
\* agent.generate is called; the handler suspends on its promise.
InvokeAgent ==
    /\ Stage = "received"
    /\ body.kind \in {"object", "primitive"}
    /\ ~Invalid(body)
    /\ \E agentId \in AgentIds \cap RegisteredAgents :
         /\ agent' = agentId
         /\ calls' = calls \o <<"req.json", "getAgent", "generate">>
    /\ messagesList' = MessagesList(Params)
    /\ mastraMessages' = [i \in 1..Len(MessagesList(Params)) |->
                             MastraMessage(MessagesList(Params)[i])]
    /\ stages' = stages \o <<"validated", "agent_resolved", "messages_normalized",
                             "agent_invoked">>
    /\ UNCHANGED <<body, query, searchData, toolResult, thrown, responses>>

\* The agent calls the capability; fetch (or searchRes.json()) rejects and
\* the rejection surfaces through agent.generate.
FetchRejects ==
    /\ Stage = "agent_invoked"
    /\ ~Called("fetch")
    /\ query' = Query(messagesList)
    /\ calls' = Append(calls, "fetch")
    /\ Fail(FetchFailure)
    /\ UNCHANGED <<body, agent, messagesList, mastraMessages, searchData, toolResult>>

\* The search yields no candidate food: the capability throws.
FetchNoResults ==
    /\ Stage = "agent_invoked"
    /\ ~Called("fetch")
    /\ \E data \in {d \in SearchResponses : NoFoods(d)} :
         /\ searchData' = data
         /\ query' = Query(messagesList)
         /\ calls' = calls \o <<"fetch", "searchRes.json">>
         /\ Fail(NoResultsMessage(Query(messagesList)))
    /\ UNCHANGED <<body, agent, messagesList, mastraMessages, toolResult>>

\* The search yields a food: the capability returns its FoodInfoResponse.
FetchSucceeds ==
    /\ Stage = "agent_invoked"
    /\ ~Called("fetch")
    /\ \E data \in {d \in SearchResponses : ~NoFoods(d)} :
         /\ searchData' = data
         /\ query' = Query(messagesList)
         /\ calls' = calls \o <<"fetch", "searchRes.json">>
         /\ toolResult' = FoodInfo(data.foods[1])
    /\ UNCHANGED <<body, stages, agent, messagesList, mastraMessages, thrown, responses>>

\* agent.generate rejects on its own account.
AgentRejects ==
    /\ Stage = "agent_invoked"
    /\ \E errorMessage \in AgentFailures : Fail(errorMessage)
    /\ UNCHANGED <<body, calls, agent, messagesList, mastraMessages, query, searchData,
                   toolResult>>

\* agent.generate resolves and the template literal throws on its result.
BuildThrows ==
    /\ Stage = "agent_invoked"
    /\ \E response \in AgentResponses(toolResult, Called("fetch")) :
         /\ TemplateFailure(response) /= Undefined
         /\ Fail(TemplateFailure(response))
    /\ UNCHANGED <<body, calls, agent, messagesList, mastraMessages, query, searchData,
                   toolResult>>

\* agent.generate resolves; the envelope is built and returned.
BuildResponds ==
    /\ Stage = "agent_invoked"
    /\ \E response \in AgentResponses(toolResult, Called("fetch")) :
         /\ TemplateFailure(response) = Undefined
         /\ responses' = Append(responses,
                SuccessEnvelope(RequestId, Get(Params, "contextId"),
                                Get(Params, "taskId"), messagesList, response))
         /\ stages' = stages \o <<"envelope_built", "responded">>
    /\ UNCHANGED <<body, calls, agent, messagesList, mastraMessages, query, searchData,
                   toolResult, thrown>>

Next ==
    \/ ReadBodyRejects
    \/ DestructureThrows
    \/ ValidateRejects
    \/ AgentLookupThrows
    \/ AgentNotFound
    \/ InvokeAgent
    \/ FetchRejects
    \/ FetchNoResults
    \/ FetchSucceeds
    \/ AgentRejects
    \/ BuildThrows
    \/ BuildResponds

Spec == Init /\ [][Next]_vars

------------------------------------------------------------------------------
\* Properties.

Finished == Stage \in {"responded", "error_responded"}
Response == responses[1]
IsError(r) == Has(r.body, "error")
IsSuccess(r) == Has(r.body, "result")
ErrorCode(r) == r.body.error.code

\* The body was parsed (c.req.json() resolved).
Parsed == body.kind \in {"object", "null", "primitive"}

\* The envelope passes validation: jsonrpc is "2.0" and the id is present.
ValidEnvelope == body.kind = "object" /\ ~Invalid(body)

\* C1: every parsed body, the JSON value null included, whose jsonrpc is
\* not "2.0" or whose id is absent, null or empty is answered with status
\* 400 and a -32600 error envelope that echoes the id when there is one,
\* carries null otherwise, and has no result field.
C1_InvalidEnvelopeIs32600 ==
    (Finished /\ Parsed /\ Invalid(body)) =>
        /\ Response.status = 400
        /\ IsError(Response) /\ ErrorCode(Response) = -32600
        /\ Response.body.id = (IF Truthy(RequestId) THEN RequestId ELSE Null)
        /\ ~IsSuccess(Response)

\* C2: a valid envelope whose agentId resolves to no agent is answered with
\* status 404 and a -32602 error envelope whose id is the request id,
\* whatever params holds.
C2_UnknownAgentIs32602 ==
    (Finished /\ ValidEnvelope /\ agent = Null) =>
        /\ Len(responses) = 1
        /\ Response.status = 404
        /\ IsError(Response) /\ ErrorCode(Response) = -32602
        /\ Response.body.id = RequestId
        /\ ~IsSuccess(Response)

C2_Witness ==
    /\ Finished /\ ValidEnvelope /\ agent = Null
    /\ Has(Params, "message") /\ Has(Params, "messages")
    /\ Response.status = 404

\* C3: for a valid envelope the response id equals the request id on every
\* path, the internal-error path included.
C3_ResponseIdEchoesRequestId ==
    (Finished /\ ValidEnvelope) => Response.body.id = RequestId

\* C4: a failure raised anywhere from agent resolution to envelope building
\* yields exactly one response, status 500 with a -32603 error envelope
\* whose data.details is the failure's message; nothing is retried.
C4_FailureIsCaughtOnce ==
    /\ Len(responses) <= 1
    /\ Count("getAgent") <= 1 /\ Count("generate") <= 1 /\ Count("fetch") <= 1
    /\ (thrown /= Undefined /\ Called("getAgent")) =>
          /\ Len(responses) = 1
          /\ Finished
          /\ Response.status = 500
          /\ IsError(Response) /\ ErrorCode(Response) = -32603
          /\ Response.body.error.data.details = thrown
          /\ ~IsSuccess(Response)

C4_Witness ==
    /\ thrown = "Cannot read properties of undefined (reading 'join')"
    /\ Called("generate") /\ Called("fetch")
    /\ Len(responses) = 1 /\ Response.status = 500

\* The history replays msgs (same role, same parts, same order) and ends
\* with one synthesized agent message.
Replays(history, msgs) ==
    /\ Len(history) = Len(msgs) + 1
    /\ \A i \in 1..Len(msgs) :
          /\ history[i].role = msgs[i].role
          /\ Has(history[i], "parts") = Has(msgs[i], "parts")
          /\ Has(msgs[i], "parts") => history[i].parts = msgs[i].parts
    /\ history[Len(history)].role = "agent"
    /\ history[Len(history)].parts = Response.body.result.status.message.parts

SuppliedMessages == Has(Params, "messages") /\ Params.messages.isArray

\* C5 as stated: on success the history replays params.messages and ends
\* with one synthesized agent message, also when params.message is supplied
\* alongside.
C5_HistoryReplaysMessages ==
    (Finished /\ IsSuccess(Response) /\ SuppliedMessages) =>
        Replays(Response.body.result.history, Params.messages.items)

\* C5 amended: on success without params.message the history replays
\* params.messages and ends with one synthesized agent message; with
\* params.message the history replays that single message instead.
C5_HistoryReplaysUsedMessages ==
    (Finished /\ IsSuccess(Response)) =>
        /\ (SuppliedMessages /\ ~Has(Params, "message")) =>
              Replays(Response.body.result.history, Params.messages.items)
        /\ Has(Params, "message") =>
              Replays(Response.body.result.history, <<Params.message>>)

C5_Witness ==
    /\ Finished /\ IsSuccess(Response)
    /\ SuppliedMessages /\ ~Has(Params, "message")
    /\ Len(Params.messages.items) = 2
    /\ Params.messages.items[1] /= Params.messages.items[2]
    /\ Len(Response.body.result.history) = 3

\* C6: when the capability ran and the search yielded no candidate food,
\* the response is a -32603 error envelope whose data.details contains the
\* query that was looked up, never a success envelope.
C6_NoResultsIs32603WithQuery ==
    (Called("searchRes.json") /\ NoFoods(searchData)) =>
        /\ Finished /\ Len(responses) = 1
        /\ IsError(Response) /\ ErrorCode(Response) = -32603
        /\ Includes(Response.body.error.data.details, query)
        /\ ~IsSuccess(Response)

C6_Witness ==
    /\ Called("searchRes.json") /\ Has(searchData, "foods") /\ NoFoods(searchData)
    /\ query = "banana"
    /\ Finished /\ ErrorCode(Response) = -32603

\* Every identifier of a success result other than the artifact ids.
OtherIds(result) ==
    {result.history[i].messageId : i \in 1..Len(result.history)}
    \cup {result.history[i].taskId : i \in 1..Len(result.history)}
    \cup {result.id, result.contextId, result.status.message.messageId}

\* C7: a success envelope carries exactly the artifacts NutritionInfoText
\* and ToolResults, in that order, with artifact ids that differ from each
\* other and from every other identifier of the response.
C7_TwoArtifactsUniqueIds ==
    (Finished /\ IsSuccess(Response)) =>
        LET result == Response.body.result
            arts   == result.artifacts
        IN /\ Len(arts) = 2
           /\ arts[1].name = "NutritionInfoText"
           /\ arts[2].name = "ToolResults"
           /\ arts[1].artifactId /= arts[2].artifactId
           /\ arts[1].artifactId \notin OtherIds(result)
           /\ arts[2].artifactId \notin OtherIds(result)

C7_Witness ==
    /\ Finished /\ IsSuccess(Response)
    /\ Len(messagesList) = 2
    /\ ~Truthy(Get(Params, "taskId")) /\ ~Truthy(Get(Params, "contextId"))
    /\ Cardinality(OtherIds(Response.body.result)) >= 5

\* The records the search returned for the food.
Records ==
    IF NoFoods(searchData) \/ ~Has(searchData.foods[1], "foodNutrients") THEN <<>>
    ELSE searchData.foods[1].foodNutrients

NoVitaminsNoMinerals ==
    \A i \in 1..Len(Records) :
        /\ ~StartsWith(Records[i].nutrientName, "Vitamin")
        /\ \A m \in MineralNames : ~Includes(Records[i].nutrientName, m)

Summarised == Called("searchRes.json") /\ ~NoFoods(searchData)

Fallback == <<"General source of nutrients and minerals">>

\* C8 as stated: with no vitamin and no mineral record the summary has no
\* vitamins and no minerals field and healthBenefits is exactly the
\* fallback, whatever the energy value.
C8_NoVitaminsNoMineralsGivesFallback ==
    (Summarised /\ NoVitaminsNoMinerals) =>
        /\ ~Has(toolResult, "vitamins") /\ ~Has(toolResult, "minerals")
        /\ toolResult.healthBenefits = Fallback

\* C8 amended: with no vitamin and no mineral record the summary has no
\* vitamins and no minerals field; healthBenefits is exactly the fallback
\* when calories is at least 50 and exactly the low-calorie benefit when it
\* is below 50 (no energy record gives calories 0).
C8_FallbackOnlyFromFiftyCalories ==
    (Summarised /\ NoVitaminsNoMinerals) =>
        /\ ~Has(toolResult, "vitamins") /\ ~Has(toolResult, "minerals")
        /\ toolResult.calories >= 50 => toolResult.healthBenefits = Fallback
        /\ toolResult.calories < 50 =>
              toolResult.healthBenefits = <<"Low in calories, good for weight management">>
        /\ (\A i \in 1..Len(Records) :
               ~Includes(LowerName[Records[i].nutrientName], "energy"))
              => toolResult.calories = 0

C8_Witness ==
    /\ Summarised /\ NoVitaminsNoMinerals
    /\ Len(Records) = 2
    /\ toolResult.calories = 52
    /\ toolResult.healthBenefits = Fallback

\* The text of the first text part of the first message that has text,
\* "apple" when there is none.
RECURSIVE FirstText(_)
FirstText(parts) ==
    IF Len(parts) = 0 THEN "apple"
    ELSE IF parts[1].kind = "text" /\ Truthy(Get(parts[1], "text")) THEN parts[1].text
    ELSE FirstText(Tail(parts))

\* C9: the query looked up is the text of the first text part of the first
\* message, wherever it sits among the parts; "apple" only when the first
\* message is absent or has no text part.
C9_QueryIsFirstTextPart ==
    Called("fetch") =>
        query = (IF Len(messagesList) > 0 /\ Has(messagesList[1], "parts")
                 THEN FirstText(messagesList[1].parts)
                 ELSE "apple")

StageOrder ==
    <<"received", "validated", "agent_resolved", "messages_normalized",
      "agent_invoked", "envelope_built", "responded">>

IsPrefix(s, t) == Len(s) <= Len(t) /\ SubSeq(t, 1, Len(s)) = s

\* The calls made so far, in the order the stages allow.
CallOrder == <<"req.json", "getAgent", "generate", "fetch", "searchRes.json">>

\* C10: the stages run in the order validate, resolve agent, normalize,
\* invoke agent, build envelope, respond, and end at the first exit; no
\* agent lookup happens for an invalid envelope; agent.generate runs at most
\* once and only after validation passed and an agent resolved; a -32600 or
\* -32602 response made no agent invocation and no nutrition lookup.
C10_StagesInOrder ==
    /\ \/ IsPrefix(stages, StageOrder)
       \/ /\ Last(stages) = "error_responded"
          /\ IsPrefix(SubSeq(stages, 1, Len(stages) - 1), StageOrder)
          /\ \A i \in 1..Len(stages) : stages[i] /= "responded"
    /\ IsPrefix(calls, CallOrder)
    /\ (Parsed /\ Invalid(body)) => ~Called("getAgent") /\ ~Called("generate")
    /\ Called("generate") =>
          /\ ValidEnvelope
          /\ agent \in RegisteredAgents
          /\ \E i \in 1..Len(stages) : stages[i] = "agent_resolved"
    /\ (Finished /\ IsError(Response) /\ ErrorCode(Response) \in {-32600, -32602}) =>
          ~Called("generate") /\ ~Called("fetch")

C10_Witness ==
    /\ stages = StageOrder
    /\ calls = CallOrder
    /\ Len(responses) = 1 /\ Response.status = 200

====
